---- MODULE Spec2Model ----
(***************************************************************************)
(* A model of the markdown blog server/builder: the code-block             *)
(* interception layer (src/src/codeblocks.rs), the navigation resolver,    *)
(* the listing builder, the page assembler and the static export           *)
(* (src/src/main.rs).                                                      *)
(*                                                                         *)
(* Strings are sequences of one-character strings, so that str::replace,   *)
(* split_once, split, Path::extension, the HTML escapers and the           *)
(* lexicographic order of String are computed character by character.      *)
(* Option<T> is a sequence of length 0 (None) or 1 (Some).                 *)
(***************************************************************************)
EXTENDS Integers, Sequences, FiniteSets, TLC

VARIABLES
    themes,         \* the keys of THEME_SET.themes, fixed at startup
    upstream,       \* CodeblockRenderer.inner: the events of the parser
    cursor,         \* how many upstream events have been pulled
    yielded,        \* the events CodeblockRenderer::next has returned
    calls,          \* the calls of render_code_to_html made so far
    rstate,         \* "idle", "running", "ended" (next returned None), "panicked"
    docs_dir,       \* the file names of docs_dir, in the order read_dir gives them
    dirOk,          \* whether read_dir(docs_dir) succeeds
    filename,       \* the file name a direct call is made for
    unreadable,     \* the file names of docs_dir whose content cannot be read
    last,           \* the last direct call of a function, with its result
    command,        \* cli.command: "serve", "build", or "none" (direct calls)
    no_nav,         \* the --no-navigation switch
    pc,             \* where run_build is
    pending,        \* the entries the read_dir of run_build has yet to give
    out_dir,        \* the files of the output directory: name -> what was written
    writes,         \* the writes of the export, in order
    result,         \* how run_build ended, or "running"
    response        \* the response to the last request

codeVars == <<upstream, cursor, yielded, calls, rstate>>
dirVars == <<docs_dir, dirOk, unreadable, filename>>
siteVars == <<command, no_nav, pc, pending, out_dir, writes, result, response>>
vars == <<themes, codeVars, dirVars, last, siteVars>>

(***************************************************************************)
(* Bounds of the model.                                                    *)
(***************************************************************************)
\* the largest number of entries of the documents directory
MaxDir == 3
\* the largest number of events of an upstream event sequence
MaxEvents == 4

(***************************************************************************)
(* Strings.                                                                *)
(***************************************************************************)
\* the characters the model uses, in the order of their byte values
Ascii == <<" ", "\"", "#", "&", "'", "-", ".", "/", "0", "1", "2", "3", "4", "5",
           "6", ":", ";", "<", "=", ">", "@", "A", "D", "I", "M", "R", "S", "U",
           "Y", "a", "b", "c", "d", "e", "h", "i", "l", "m", "n", "o", "p", "q",
           "r", "s", "t", "u", "v", "x", "y">>

Code(c) == CHOOSE i \in 1..Len(Ascii) : Ascii[i] = c

\* Ord for String: bytewise lexicographic, a proper prefix is smaller
RECURSIVE StrLess(_, _)
StrLess(s, t) ==
    IF t = <<>> THEN FALSE
    ELSE IF s = <<>> THEN TRUE
    ELSE IF Head(s) = Head(t) THEN StrLess(Tail(s), Tail(t))
    ELSE Code(Head(s)) < Code(Head(t))

StartsWith(s, pat) == Len(s) >= Len(pat) /\ SubSeq(s, 1, Len(pat)) = pat

Drop(s, n) == SubSeq(s, n + 1, Len(s))

Min(S) == CHOOSE x \in S : \A y \in S : x <= y
Max(S) == CHOOSE x \in S : \A y \in S : x >= y

\* str::replace: for each match of pat found from last_end on (match_indices:
\* leftmost first, not overlapping) push the text before it and then `to`;
\* at the end push the rest
RECURSIVE ReplaceFrom(_, _, _, _)
ReplaceFrom(s, pat, to, last_end) ==
    LET found == {i \in (last_end + 1)..(Len(s) - Len(pat) + 1) :
                    SubSeq(s, i, i + Len(pat) - 1) = pat}
    IN  IF found = {} THEN SubSeq(s, last_end + 1, Len(s))
        ELSE SubSeq(s, last_end + 1, Min(found) - 1) \o to
             \o ReplaceFrom(s, pat, to, Min(found) + Len(pat) - 1)

Replace(s, pat, to) == ReplaceFrom(s, pat, to, 0)

\* the positions of character c in s
Positions(s, c) == {i \in 1..Len(s) : s[i] = c}

None == <<>>
Some(x) == <<x>>

(***************************************************************************)
(* Literals of the program.                                                *)
(***************************************************************************)
DotMd == <<".", "m", "d">>
DotHtml == <<".", "h", "t", "m", "l">>
Md == <<"m", "d">>
SummaryMd == <<"S", "U", "M", "M", "A", "R", "Y", ".", "m", "d">>
IndexSentinel == <<".">>
IndexHtml == <<"i", "n", "d", "e", "x", ".", "h", "t", "m", "l">>
StyleCss == <<"s", "t", "y", "l", "e", ".", "c", "s", "s">>
InvalidDate == <<"I", "n", "v", "a", "l", "i", "d", " ", "D", "a", "t", "e">>

(***************************************************************************)
(* File names the directories of the model are drawn from.                 *)
(***************************************************************************)
FileA == <<"a", "@", "2", "0", "2", "4", "-", "0", "1", "-", "0", "1", ".", "m", "d">>
FileB == <<"b", "@", "2", "0", "2", "4", "-", "0", "6", "-", "0", "1", ".", "m", "d">>
FileC == <<"c", "@", "2", "0", "2", "4", "-", "0", "3", "-", "0", "1", ".", "m", "d">>
FileC2 == <<"c", "2", "@", "2", "0", "2", "4", "-", "0", "3", "-", "0", "1", ".", "m", "d">>
IndexMd == <<"i", "n", "d", "e", "x", ".", "m", "d">>
DottedTs == <<"d", "@", "1", ".", "5", ".", "m", "d">>
DoubleMd == <<"e", ".", "m", "d", ".", "m", "d">>
HtmlMd == <<"e", ".", "h", "t", "m", "l", ".", "m", "d">>
NotesTxt == <<"n", "o", "t", "e", "s", ".", "t", "x", "t">>
HiddenMd == <<".", "m", "d">>
ReadmeMd == <<"r", "e", "a", "d", "m", "e", ".", "m", "d">>

(***************************************************************************)
(* Path::extension of a file name: None without an embedded '.', None when *)
(* the only '.' is the leading one, else the text after the final '.'.     *)
(***************************************************************************)
Extension(name) ==
    LET dots == Positions(name, ".") \ {1}
    IN  IF dots = {} THEN None ELSE Some(Drop(name, Max(dots)))

\* path.extension() == Some("md")
IsMarkdown(name) == Extension(name) = Some(Md)

(***************************************************************************)
(* Sorting: Vec::sort and Vec::sort_by are stable; an element is inserted  *)
(* before the first element it is strictly before.                         *)
(***************************************************************************)
InsertSorted(sorted, x, Before(_, _)) ==
    LET later == {i \in 1..Len(sorted) : Before(x, sorted[i])}
        at == IF later = {} THEN Len(sorted) + 1 ELSE Min(later)
    IN  SubSeq(sorted, 1, at - 1) \o <<x>> \o SubSeq(sorted, at, Len(sorted))

(***************************************************************************)
(* get_nav_links(dir, current_file).  entries is the directory in the      *)
(* order read_dir enumerates it.                                           *)
(***************************************************************************)
NavKeep(name) == IsMarkdown(name) /\ name # SummaryMd

\* the directory entries get_nav_links keeps, in enumeration order
RECURSIVE NavFiles(_)
NavFiles(entries) ==
    IF entries = <<>> THEN <<>>
    ELSE (IF NavKeep(Head(entries)) THEN <<Head(entries)>> ELSE <<>>)
         \o NavFiles(Tail(entries))

\* the files left in the order of enumeration
SortFilesSkipped(files) == files

\* files.sort()
RECURSIVE SortFiles(_)
SortFiles(files) ==
    IF files = <<>> THEN <<>>
    ELSE InsertSorted(SortFiles(SubSeq(files, 1, Len(files) - 1)),
                      files[Len(files)], StrLess)

\* the previous link of the file at position i (1-based)
PrevAt(files, i) == IF i = 1 THEN Some(IndexSentinel) ELSE Some(files[i - 1])

\* files.get(i + 1).cloned()
NextAt(files, i) == IF i + 1 <= Len(files) THEN Some(files[i + 1]) ELSE None

get_nav_links(entries, current_file) ==
    LET files == SortFiles(NavFiles(entries))
        pos == {i \in 1..Len(files) : files[i] = current_file}
    IN  IF pos = {} THEN [prev |-> None, next |-> None]
        ELSE [prev |-> PrevAt(files, Min(pos)), next |-> NextAt(files, Min(pos))]

(***************************************************************************)
(* THEME_SET: the default themes, plus the embedded theme when             *)
(* load_from_reader returned Ok.                                           *)
(***************************************************************************)
ThemeName == "Catppuccin Macchiato"
DefaultThemes == {"base16-ocean.dark", "InspiredGitHub", "Solarized (dark)"}
THEME_SET(loaded) == DefaultThemes \cup (IF loaded THEN {ThemeName} ELSE {})

(***************************************************************************)
(* HTML text.                                                              *)
(***************************************************************************)
PreOpen == <<"<", "p", "r", "e">>
DataCodeOpen ==
    <<"<", "p", "r", "e", " ", "d", "a", "t", "a", "-", "c", "o", "d", "e", "=", "\"">>
Quote == <<"\"">>
HlPreHead ==
    <<"<", "p", "r", "e", " ", "s", "t", "y", "l", "e", "=", "\"", "b", "a", "c", "k",
      "g", "r", "o", "u", "n", "d", "-", "c", "o", "l", "o", "r", ":", "#", "2",
      "4", "2", "7", "3", "a", ";", "\"", ">", "\n">>
SpanPlain ==
    <<"<", "s", "p", "a", "n", " ", "s", "t", "y", "l", "e", "=", "\"", "c", "o", "l",
      "o", "r", ":", "#", "c", "a", "d", "3", "f", "5", ";", "\"", ">">>
SpanRust ==
    <<"<", "s", "p", "a", "n", " ", "s", "t", "y", "l", "e", "=", "\"", "c", "o", "l",
      "o", "r", ":", "#", "c", "6", "a", "0", "f", "6", ";", "\"", ">">>
SpanClose == <<"<", "/", "s", "p", "a", "n", ">">>
HlPreTail == <<"<", "/", "p", "r", "e", ">", "\n">>
FallbackHead == <<"<", "p", "r", "e", ">", "<", "c", "o", "d", "e", ">">>
FallbackTail == <<"<", "/", "c", "o", "d", "e", ">", "<", "/", "p", "r", "e", ">">>
AmpEnt == <<"&", "a", "m", "p", ";">>
LtEnt == <<"&", "l", "t", ";">>
GtEnt == <<"&", "g", "t", ";">>
QuotEnt == <<"&", "q", "u", "o", "t", ";">>
AposEnt == <<"&", "#", "3", "9", ";">>

\* the escape table of escape_html and of the highlighter: & < > " '
EscapeChar(c) ==
    CASE c = "&" -> AmpEnt
      [] c = "<" -> LtEnt
      [] c = ">" -> GtEnt
      [] c = "\"" -> QuotEnt
      [] c = "'" -> AposEnt
      [] OTHER -> <<c>>

\* pulldown_cmark_escape::escape_html(&mut escaped_code, &code_content)
RECURSIVE escape_html(_)
escape_html(s) ==
    IF s = <<>> THEN <<>> ELSE EscapeChar(Head(s)) \o escape_html(Tail(s))

(***************************************************************************)
(* render_code_to_html(code, lang).  hlErr says whether                    *)
(* highlighted_html_for_string returns Err for this call.  The result is   *)
(* [path, html]: path "panic" when THEME_SET.themes has no entry for the   *)
(* theme name (the index panics), "fallback" on Err, else "highlighted".   *)
(***************************************************************************)
KnownTokens == {"rs", "rust"}

\* SYNTAX_SET.find_syntax_by_token(lang).unwrap_or_else(find_syntax_plain_text)
FindSyntax(lang) == IF lang \in KnownTokens THEN "Rust" ELSE "Plain Text"

\* highlighted_html_for_string on its Ok path: a <pre> with the theme's
\* background, the escaped text in coloured spans (one span stands for them)
HighlightedHtml(code, syntax) ==
    HlPreHead \o (IF syntax = "Rust" THEN SpanRust ELSE SpanPlain)
    \o escape_html(code) \o SpanClose \o HlPreTail

\* format!("<pre><code>{}</code></pre>", code)
FallbackHtml(code) == FallbackHead \o code \o FallbackTail

\* &THEME_SET.themes["Catppuccin Macchiato"]
ThemePresent(themeKeys) == ThemeName \in themeKeys

render_code_to_html(code, lang, themeKeys, hlErr) ==
    IF ~ThemePresent(themeKeys) THEN [path |-> "panic", html |-> <<>>]
    ELSE IF hlErr THEN [path |-> "fallback", html |-> FallbackHtml(code)]
    ELSE [path |-> "highlighted", html |-> HighlightedHtml(code, FindSyntax(lang))]

(***************************************************************************)
(* Events of the markdown parser.                                          *)
(***************************************************************************)
StartCodeBlock(kind) == [tag |-> "Start(CodeBlock)", data |-> kind]
Indented == None
Fenced(lang) == Some(lang)
EndCodeBlock == [tag |-> "End(CodeBlock)", data |-> None]
Text(s) == [tag |-> "Text", data |-> s]
Html(s) == [tag |-> "Html", data |-> s]
SoftBreak == [tag |-> "SoftBreak", data |-> None]
IsStart(e) == e.tag = "Start(CodeBlock)"

\* the text events of the model: together they hold & < > " ' and "<pre"
Texts == {PreOpen, <<"&", ">">>, <<"\"", "'">>, <<"a">>}

Events ==
    {StartCodeBlock(Indented), StartCodeBlock(Fenced("rs")),
     StartCodeBlock(Fenced("nonexistentlang123")), EndCodeBlock, SoftBreak}
    \cup {Text(t) : t \in Texts}

BoundedSeq(S, n) == UNION {[1..k -> S] : k \in 0..n}

(***************************************************************************)
(* CodeblockRenderer::next.                                                *)
(***************************************************************************)
\* the index of the first End(CodeBlock) after position i, or Len + 1
SpanEnd(seq, i) ==
    LET ends == {j \in (i + 1)..Len(seq) : seq[j] = EndCodeBlock}
    IN  IF ends = {} THEN Len(seq) + 1 ELSE Min(ends)

\* code_content: the Text events of seq[from..to], concatenated in order
RECURSIVE CodeContent(_, _, _)
CodeContent(seq, from, to) ==
    IF from > to THEN <<>>
    ELSE (IF seq[from].tag = "Text" THEN seq[from].data ELSE <<>>)
         \o CodeContent(seq, from + 1, to)

\* CodeBlockKind::Indented => "text", Fenced(language) => language
LangOf(kind) == IF kind = Indented THEN "text" ELSE kind[1]

\* rendered_html.replace("<pre", &format!("<pre data-code=\"{}\"", escaped_code))
SpliceDataCode(rendered_html, code_content) ==
    Replace(rendered_html, PreOpen, DataCodeOpen \o escape_html(code_content) \o Quote)

\* let event = self.inner.next()?;
NextEnd ==
    /\ rstate = "running"
    /\ cursor >= Len(upstream)
    /\ rstate' = "ended"
    /\ UNCHANGED <<upstream, cursor, yielded, calls>>

\* let ... else { return Some(event) }
NextPassThrough ==
    /\ rstate = "running"
    /\ cursor < Len(upstream)
    /\ upstream[cursor + 1].tag # "Start(CodeBlock)"
    /\ yielded' = Append(yielded, upstream[cursor + 1])
    /\ cursor' = cursor + 1
    /\ UNCHANGED <<upstream, calls, rstate>>

\* the code-block branch of next, entered with the Start(CodeBlock) event at
\* position cur + 1: the while-let loop to End(CodeBlock) or to the end of
\* the upstream, then the highlighting, the data-code splice and the Html event
CodeBlockStep(seq, cur, themeKeys, hlErr) ==
    LET start == cur + 1
        stop == SpanEnd(seq, start)
        code_content == CodeContent(seq, start + 1, stop - 1)
        lang == LangOf(seq[start].data)
        r == render_code_to_html(code_content, lang, themeKeys, hlErr)
    IN  [cursor |-> IF stop > Len(seq) THEN Len(seq) ELSE stop,
         call |-> [code |-> code_content, lang |-> lang, path |-> r.path,
                   html |-> r.html, closed |-> stop <= Len(seq)],
         panicked |-> r.path = "panic",
         event |-> IF r.path = "panic" THEN None
                   ELSE Some(Html(SpliceDataCode(r.html, code_content)))]

NextCodeBlock ==
    /\ rstate = "running"
    /\ cursor < Len(upstream)
    /\ upstream[cursor + 1].tag = "Start(CodeBlock)"
    /\ \E hlErr \in BOOLEAN :
        LET st == CodeBlockStep(upstream, cursor, themes, hlErr)
        IN  /\ cursor' = st.cursor
            /\ calls' = Append(calls, st.call)
            /\ yielded' = yielded \o st.event
            /\ rstate' = IF st.panicked THEN "panicked" ELSE rstate
    /\ UNCHANGED upstream

\* html::push_html(&mut html_output, renderer): pulls next until None; the
\* body is kept as the sequence of events it is written from
RECURSIVE PushHtml(_, _, _, _)
PushHtml(seq, cur, themeKeys, hlErr) ==
    IF cur >= Len(seq) THEN [panicked |-> FALSE, body |-> <<>>]
    ELSE IF seq[cur + 1].tag # "Start(CodeBlock)"
    THEN LET rest == PushHtml(seq, cur + 1, themeKeys, hlErr)
         IN  [panicked |-> rest.panicked, body |-> <<seq[cur + 1]>> \o rest.body]
    ELSE LET st == CodeBlockStep(seq, cur, themeKeys, hlErr)
             rest == PushHtml(seq, st.cursor, themeKeys, hlErr)
         IN  IF st.panicked THEN [panicked |-> TRUE, body |-> <<>>]
             ELSE [panicked |-> rest.panicked, body |-> st.event \o rest.body]

Idle == [fn |-> "none"]
NoFiles == [name \in {} |-> Idle]

\* the values of the variables a specification does not use
CodeIdle ==
    /\ upstream = <<>> /\ cursor = 0 /\ yielded = <<>> /\ calls = <<>>
    /\ rstate = "idle"

SiteIdle ==
    /\ command = "none" /\ no_nav = FALSE /\ pc = "none" /\ pending = <<>>
    /\ out_dir = NoFiles /\ writes = <<>> /\ result = "none" /\ response = Idle

InitCode ==
    /\ \E loaded \in BOOLEAN : themes = THEME_SET(loaded)
    /\ upstream \in BoundedSeq(Events, MaxEvents)
    /\ cursor = 0
    /\ yielded = <<>>
    /\ calls = <<>>
    /\ rstate = "running"
    /\ docs_dir = <<>>
    /\ dirOk = TRUE
    /\ unreadable = {}
    /\ filename = <<>>
    /\ last = Idle
    /\ SiteIdle

\* html::push_html pulls CodeblockRenderer::next until it returns None
NextCode ==
    \/ NextEnd /\ UNCHANGED <<themes, dirVars, last, siteVars>>
    \/ NextPassThrough /\ UNCHANGED <<themes, dirVars, last, siteVars>>
    \/ NextCodeBlock /\ UNCHANGED <<themes, dirVars, last, siteVars>>

SpecCode == InitCode /\ [][NextCode]_vars

(***************************************************************************)
(* Properties of the code-block interception layer.                        *)
(***************************************************************************)
\* every code-block-start at or after position i outside a span is followed
\* by a code-block-end, with no other code-block-start in between
RECURSIVE WellFormedFrom(_, _)
WellFormedFrom(seq, i) ==
    IF i > Len(seq) THEN TRUE
    ELSE IF IsStart(seq[i])
         THEN LET j == SpanEnd(seq, i)
              IN  /\ j <= Len(seq)
                  /\ \A m \in (i + 1)..(j - 1) : ~IsStart(seq[m])
                  /\ WellFormedFrom(seq, j + 1)
         ELSE WellFormedFrom(seq, i + 1)

WellFormed(seq) == WellFormedFrom(seq, 1)

\* the upstream with each span replaced by one marker holding the span's
\* text and language
RECURSIVE SplicedFrom(_, _)
SplicedFrom(seq, i) ==
    IF i > Len(seq) THEN <<>>
    ELSE IF IsStart(seq[i])
         THEN LET j == SpanEnd(seq, i)
              IN  <<[tag |-> "Span", code |-> CodeContent(seq, i + 1, j - 1),
                     lang |-> LangOf(seq[i].data)]>> \o SplicedFrom(seq, j + 1)
         ELSE <<seq[i]>> \o SplicedFrom(seq, i + 1)

\* the Html events the layer may build from a span's text
HtmlOf(code, lang) ==
    {Html(SpliceDataCode(HighlightedHtml(code, FindSyntax(lang)), code)),
     Html(SpliceDataCode(FallbackHtml(code), code))}

YieldMatches(out, want) ==
    /\ Len(out) = Len(want)
    /\ \A k \in 1..Len(want) :
        IF want[k].tag = "Span" THEN out[k] \in HtmlOf(want[k].code, want[k].lang)
        ELSE out[k] = want[k]

Finished == rstate \in {"ended", "panicked"}

\* C3: for a well-formed upstream, the yielded sequence is the upstream with
\* each code span replaced by exactly one Html event built from the span's
\* concatenated Text events, every other event unchanged and in order.
C3_SpansSpliced ==
    (Finished /\ WellFormed(upstream)) =>
        (rstate = "ended" /\ YieldMatches(yielded, SplicedFrom(upstream, 1)))

\* the same statement for the runs in which the embedded theme was loaded
SpansSplicedWhenThemeLoaded ==
    (Finished /\ WellFormed(upstream) /\ ThemePresent(themes)) =>
        (rstate = "ended" /\ YieldMatches(yielded, SplicedFrom(upstream, 1)))

HtmlEvents(out) == SelectSeq(out, LAMBDA e : e.tag = "Html")

Occurrences(s, pat) ==
    Cardinality({i \in 1..(Len(s) - Len(pat) + 1) : SubSeq(s, i, i + Len(pat) - 1) = pat})

DataCodeAttr == <<" ", "d", "a", "t", "a", "-", "c", "o", "d", "e", "=", "\"">>

\* the value of the attribute that opens the fragment: up to the next quote
AttrValue(h) ==
    LET rest == Drop(h, Len(DataCodeOpen))
        q == Positions(rest, "\"")
    IN  IF q = {} THEN rest ELSE SubSeq(rest, 1, Min(q) - 1)

\* HTML unescaping of the five entities
RECURSIVE Unescape(_)
Unescape(s) ==
    IF s = <<>> THEN <<>>
    ELSE IF StartsWith(s, AmpEnt) THEN <<"&">> \o Unescape(Drop(s, Len(AmpEnt)))
    ELSE IF StartsWith(s, LtEnt) THEN <<"<">> \o Unescape(Drop(s, Len(LtEnt)))
    ELSE IF StartsWith(s, GtEnt) THEN <<">">> \o Unescape(Drop(s, Len(GtEnt)))
    ELSE IF StartsWith(s, QuotEnt) THEN <<"\"">> \o Unescape(Drop(s, Len(QuotEnt)))
    ELSE IF StartsWith(s, AposEnt) THEN <<"'">> \o Unescape(Drop(s, Len(AposEnt)))
    ELSE <<Head(s)>> \o Unescape(Tail(s))

\* the calls that returned, in order: one Html event was yielded for each
ReturnedCalls == SelectSeq(calls, LAMBDA c : c.path # "panic")

\* C5: the Html event of every code block carries data-code on the outermost
\* <pre> and nowhere else, and its unescaped value is the block's text, on
\* the highlighter's normal path and on its fallback path.
C5_DataCodeRoundTrip ==
    \A k \in 1..Len(ReturnedCalls) :
        (ReturnedCalls[k].closed /\ k <= Len(HtmlEvents(yielded))) =>
            LET h == HtmlEvents(yielded)[k].data
            IN  /\ StartsWith(h, DataCodeOpen)
                /\ Occurrences(h, DataCodeAttr) = 1
                /\ Unescape(AttrValue(h)) = ReturnedCalls[k].code

\* the minimal escaping of text: & < >
RECURSIVE EscapeBody(_)
EscapeBody(s) ==
    IF s = <<>> THEN <<>>
    ELSE (IF Head(s) \in {"&", "<", ">"} THEN EscapeChar(Head(s)) ELSE <<Head(s)>>)
         \o EscapeBody(Tail(s))

\* C6: render_code_to_html never propagates a failure, whatever the code, the
\* language token and the outcome of the theme's loading, and on the fallback
\* path returns <pre><code> around the HTML-escaped code.
C6_HighlighterTotal ==
    \A k \in 1..Len(calls) :
        /\ calls[k].path # "panic"
        /\ calls[k].path = "fallback" =>
              calls[k].html \in {FallbackHead \o escape_html(calls[k].code) \o FallbackTail,
                                 FallbackHead \o EscapeBody(calls[k].code) \o FallbackTail}

(***************************************************************************)
(* render_markdown_to_html(content, filename, docs_dir, no_navigation,     *)
(* is_static).  content is the event sequence the parser gives for the     *)
(* text; dir_ok says whether read_dir succeeds (get_nav_links unwraps it); *)
(* tplErr whether TEMPLATES.render returns Err.                            *)
(***************************************************************************)
\* s.replace(".md", ".html") of a previous link, "." becoming "index.html"
StaticPrevNoIndex(s) == Replace(s, DotMd, DotHtml)
StaticPrev(s) == IF s = IndexSentinel THEN IndexHtml ELSE Replace(s, DotMd, DotHtml)

\* next.map(|s| s.replace(".md", ".html"))
StaticNext(s) == Replace(s, DotMd, DotHtml)

\* out_dir.join(filename.replace(".md", ".html")) in run_build
OutFileName(name) == Replace(name, DotMd, DotHtml)

MapOption(opt, F(_)) == IF opt = None THEN None ELSE Some(F(opt[1]))

\* the (prev, next) of the render context, or a panic of get_nav_links
NavPair(name, entries, dir_ok, no_navigation, is_static) ==
    IF no_navigation THEN [panicked |-> FALSE, prev |-> None, next |-> None]
    ELSE IF ~dir_ok THEN [panicked |-> TRUE, prev |-> None, next |-> None]
    ELSE LET nav == get_nav_links(entries, name)
         IN  [panicked |-> FALSE,
              prev |-> IF is_static THEN MapOption(nav.prev, StaticPrev) ELSE nav.prev,
              next |-> IF is_static THEN MapOption(nav.next, StaticNext) ELSE nav.next]

Panic == [outcome |-> "panic"]

render_markdown_to_html(content, name, entries, dir_ok, no_navigation, is_static, themeKeys, hlErr, tplErr) ==
    LET html_output == PushHtml(content, 0, themeKeys, hlErr)
        nav == NavPair(name, entries, dir_ok, no_navigation, is_static)
    IN  IF html_output.panicked \/ nav.panicked THEN Panic
        ELSE [outcome |-> IF tplErr THEN "error text" ELSE "page",
              title |-> name, content |-> html_output.body,
              prev_page |-> nav.prev, next_page |-> nav.next,
              no_navigation |-> no_navigation, is_static |-> is_static]

(***************************************************************************)
(* Direct calls of get_nav_links and render_markdown_to_html, on every     *)
(* directory of at most MaxDir entries drawn from NavNames, in every       *)
(* enumeration order.                                                      *)
(***************************************************************************)
NavNames == {FileA, FileB, FileC, SummaryMd, DoubleMd, NotesTxt}

\* the sequences of at most n distinct elements of S
Enumerations(S, n) ==
    {q \in BoundedSeq(S, n) : \A i, j \in 1..Len(q) : i # j => q[i] # q[j]}

\* the parsed texts of the documents of the model
PlainDoc == <<Text(<<"a">>), SoftBreak>>
CodeDoc == <<StartCodeBlock(Fenced("rs")), Text(PreOpen), EndCodeBlock, SoftBreak>>
Documents == {PlainDoc, CodeDoc}

\* without a code block the highlighter is not called, and cannot fail
HasCodeBlock(content) == \E i \in 1..Len(content) : IsStart(content[i])

InitNav ==
    /\ \E loaded \in BOOLEAN : themes = THEME_SET(loaded)
    /\ docs_dir \in Enumerations(NavNames, MaxDir)
    /\ dirOk \in BOOLEAN
    \* what an unreadable directory holds is never seen
    /\ dirOk \/ docs_dir = <<>>
    /\ filename \in NavNames \cup {IndexMd}
    /\ unreadable = {}
    /\ last = Idle
    /\ CodeIdle
    /\ SiteIdle

CallGetNavLinks ==
    /\ last = Idle
    /\ last' = IF dirOk
               THEN [fn |-> "get_nav_links", outcome |-> "returned",
                     pair |-> get_nav_links(docs_dir, filename)]
               ELSE [fn |-> "get_nav_links", outcome |-> "panic"]
    /\ UNCHANGED <<themes, codeVars, dirVars, siteVars>>

CallRender ==
    /\ last = Idle
    /\ \E content \in Documents, no_navigation, is_static, hlErr, tplErr \in BOOLEAN :
        /\ hlErr => HasCodeBlock(content)
        /\ last' = [fn |-> "render_markdown_to_html",
                 args |-> [content |-> content, no_navigation |-> no_navigation,
                           is_static |-> is_static, hlErr |-> hlErr, tplErr |-> tplErr],
                 result |-> render_markdown_to_html(content, filename, docs_dir, dirOk,
                               no_navigation, is_static, themes, hlErr, tplErr)]
    /\ UNCHANGED <<themes, codeVars, dirVars, siteVars>>

NextNav == CallGetNavLinks \/ CallRender

SpecNav == InitNav /\ [][NextNav]_vars

(***************************************************************************)
(* Properties of the navigation resolver.                                  *)
(***************************************************************************)
\* the .md file names of the directory other than SUMMARY.md
Siblings == {docs_dir[i] : i \in {j \in 1..Len(docs_dir) : NavKeep(docs_dir[j])}}

Greatest(S) == CHOOSE f \in S : \A g \in S : g = f \/ StrLess(g, f)
Least(S) == CHOOSE f \in S : \A g \in S : g = f \/ StrLess(f, g)
Before(f) == {g \in Siblings : StrLess(g, f)}
After(f) == {g \in Siblings : StrLess(f, g)}

DirIs(S) == {docs_dir[i] : i \in 1..Len(docs_dir)} = S /\ Len(docs_dir) = Cardinality(S)

\* C1: get_nav_links works on the .md file names other than SUMMARY.md in
\* lexicographic order: (absent, absent) for a file name not among them, the
\* index sentinel before the first, nothing after the last, and otherwise the
\* names immediately before and after; a, b, c of the example give
\* a -> (sentinel, b), b -> (a, c), c -> (b, absent).
C1_NavLinks ==
    (last.fn = "get_nav_links" /\ last.outcome = "returned") =>
        /\ filename \notin Siblings => last.pair = [prev |-> None, next |-> None]
        /\ filename \in Siblings =>
            /\ last.pair.prev = IF Before(filename) = {} THEN Some(IndexSentinel)
                                ELSE Some(Greatest(Before(filename)))
            /\ last.pair.next = IF After(filename) = {} THEN None
                                ELSE Some(Least(After(filename)))
        /\ DirIs({FileA, FileB, FileC}) =>
            /\ filename = FileA => last.pair = [prev |-> Some(IndexSentinel), next |-> Some(FileB)]
            /\ filename = FileB => last.pair = [prev |-> Some(FileA), next |-> Some(FileC)]
            /\ filename = FileC => last.pair = [prev |-> Some(FileB), next |-> None]

\* a call for a file with a sibling on each side, in a directory that is not
\* enumerated in sorted order
C1_Witness ==
    /\ last.fn = "get_nav_links" /\ last.outcome = "returned"
    /\ docs_dir = <<FileC, FileA, FileB>> /\ filename = FileB
    /\ last.pair = [prev |-> Some(FileA), next |-> Some(FileC)]

StaticCall == last.fn = "render_markdown_to_html" /\ last.args.is_static

\* what the same call gives in serving mode
Serving ==
    render_markdown_to_html(last.args.content, filename, docs_dir, dirOk,
        last.args.no_navigation, FALSE, themes, last.args.hlErr, last.args.tplErr)

\* the static link of a serving link
SameDecision(static, serving) ==
    /\ static = None <=> serving = None
    /\ serving = Some(IndexSentinel) => static = Some(IndexHtml)
    /\ (serving # None /\ serving # Some(IndexSentinel)) =>
          static = Some(OutFileName(serving[1]))

\* C2: static mode makes the adjacency decisions of serving mode: a link is
\* absent in one exactly when it is in the other, the index sentinel becomes
\* "index.html", a sibling becomes the output file name the export writes for
\* it, and nothing else of the page differs.
C2_SameAdjacency ==
    StaticCall =>
        LET static == last.result
            serving == Serving
        IN  /\ static.outcome = serving.outcome
            /\ static.outcome # "panic" =>
                /\ SameDecision(static.prev_page, serving.prev_page)
                /\ SameDecision(static.next_page, serving.next_page)
                /\ static.title = serving.title
                /\ static.content = serving.content
                /\ static.no_navigation = serving.no_navigation

\* a static page of the first sibling: the index link before it, the output
\* file of e.md.md after it
C2_Witness ==
    /\ StaticCall /\ last.result.outcome = "page"
    /\ last.result.prev_page = Some(IndexHtml)
    /\ last.result.next_page = Some(OutFileName(DoubleMd))
    /\ Serving.prev_page = Some(IndexSentinel)
    /\ Serving.next_page = Some(DoubleMd)

(***************************************************************************)
(* get_summary_data(docs_dir).  cant_read holds the file names whose       *)
(* File::open or read_line fails.                                          *)
(***************************************************************************)
\* the first line of the text of a document of the model: "# " and a title
FirstLine(name) == <<"#", " ", name[1], "\n">>

RECURSIVE TrimStartMatches(_, _)
TrimStartMatches(s, c) ==
    IF s # <<>> /\ Head(s) = c THEN TrimStartMatches(Tail(s), c) ELSE s

Whitespace == {" ", "\n"}

\* str::trim
Trim(s) ==
    LET solid == {i \in 1..Len(s) : s[i] \notin Whitespace}
    IN  IF solid = {} THEN <<>> ELSE SubSeq(s, Min(solid), Max(solid))

\* line.trim_start_matches('#').trim(), or the file name when the read fails
TitleOf(name, cant_read) ==
    IF name \in cant_read THEN name ELSE Trim(TrimStartMatches(FirstLine(name), "#"))

\* filename_str.split_once('@'): the text after the first '@'
AfterAt(name) ==
    LET ats == Positions(name, "@")
    IN  IF ats = {} THEN None ELSE Some(Drop(name, Min(ats)))

\* ts_with_ext.split('.').next(): the text up to the first '.'
FirstPiece(ts_with_ext) ==
    LET dots == Positions(ts_with_ext, ".")
    IN  IF dots = {} THEN ts_with_ext ELSE SubSeq(ts_with_ext, 1, Min(dots) - 1)

DatetimeOf(name) ==
    IF AfterAt(name) = None THEN InvalidDate ELSE FirstPiece(AfterAt(name)[1])

PageOf(name, cant_read) ==
    [filename |-> name, title |-> TitleOf(name, cant_read), datetime |-> DatetimeOf(name)]

\* the while-let loop over the entries: a Page for each entry with extension md
RECURSIVE CollectPages(_, _)
CollectPages(entries, cant_read) ==
    IF entries = <<>> THEN <<>>
    ELSE (IF IsMarkdown(Head(entries)) THEN <<PageOf(Head(entries), cant_read)>> ELSE <<>>)
         \o CollectPages(Tail(entries), cant_read)

\* b.datetime.cmp(&a.datetime) is Less: a goes before b
NewerFirst(a, b) == StrLess(b.datetime, a.datetime)

\* pages.sort_by(|a, b| b.datetime.cmp(&a.datetime))
RECURSIVE SortPages(_)
SortPages(pages) ==
    IF pages = <<>> THEN <<>>
    ELSE InsertSorted(SortPages(SubSeq(pages, 1, Len(pages) - 1)),
                      pages[Len(pages)], NewerFirst)

get_summary_data(entries, dir_ok, cant_read) ==
    IF ~dir_ok THEN <<>> ELSE SortPages(CollectPages(entries, cant_read))

(***************************************************************************)
(* Direct calls of get_summary_data.                                       *)
(***************************************************************************)
ListNames == {FileA, FileB, FileC, FileC2, DottedTs, ReadmeMd, NotesTxt, HiddenMd}

Range(q) == {q[i] : i \in 1..Len(q)}

InitList ==
    /\ \E loaded \in BOOLEAN : themes = THEME_SET(loaded)
    /\ docs_dir \in Enumerations(ListNames, MaxDir)
    /\ dirOk \in BOOLEAN
    /\ dirOk \/ docs_dir = <<>>
    /\ \E S \in SUBSET Range(docs_dir) : Cardinality(S) <= 1 /\ unreadable = S
    /\ filename = <<>>
    /\ last = Idle
    /\ CodeIdle
    /\ SiteIdle

CallGetSummaryData ==
    /\ last = Idle
    /\ last' = [fn |-> "get_summary_data",
                pages |-> get_summary_data(docs_dir, dirOk, unreadable)]
    /\ UNCHANGED <<themes, codeVars, dirVars, siteVars>>

NextList == CallGetSummaryData

SpecList == InitList /\ [][NextList]_vars

(***************************************************************************)
(* Properties of the listing.                                              *)
(***************************************************************************)
\* the text up to the last '.' of the remainder
UpToLastDot(ts_with_ext) ==
    LET dots == Positions(ts_with_ext, ".")
    IN  IF dots = {} THEN ts_with_ext ELSE SubSeq(ts_with_ext, 1, Max(dots) - 1)

\* the text after the '@' up to but excluding the extension
TimestampOf(name) ==
    IF AfterAt(name) = None THEN InvalidDate ELSE UpToLastDot(AfterAt(name)[1])

PositionIn(q, x) == Min({i \in 1..Len(q) : q[i] = x})

\* C7: get_summary_data returns one entry per .md file, by timestamp
\* descending, equal timestamps in enumeration order; the timestamp is the
\* text after '@' up to but excluding the extension, or "Invalid Date"
\* without '@'; a, b, c of the example come out as b, c, a.
C7_Listing ==
    (last.fn = "get_summary_data" /\ dirOk) =>
        LET pages == last.pages
            names == [i \in 1..Len(pages) |-> pages[i].filename]
        IN  /\ Range(names) = {n \in Range(docs_dir) : IsMarkdown(n)}
            /\ Len(pages) = Cardinality(Range(names))
            /\ \A i \in 1..Len(pages) : pages[i].datetime = TimestampOf(pages[i].filename)
            /\ \A i, j \in 1..Len(pages) :
                i < j =>
                    \/ StrLess(pages[j].datetime, pages[i].datetime)
                    \/ /\ pages[j].datetime = pages[i].datetime
                       /\ PositionIn(docs_dir, names[i]) < PositionIn(docs_dir, names[j])
            /\ DirIs({FileA, FileB, FileC}) => names = <<FileB, FileC, FileA>>

\* the same statement with the timestamp the code derives: the text after the
\* first '@' up to the first '.'
ListingByFirstPiece ==
    (last.fn = "get_summary_data" /\ dirOk) =>
        LET pages == last.pages
            names == [i \in 1..Len(pages) |-> pages[i].filename]
        IN  /\ Range(names) = {n \in Range(docs_dir) : IsMarkdown(n)}
            /\ Len(pages) = Cardinality(Range(names))
            /\ \A i \in 1..Len(pages) :
                pages[i].datetime = IF AfterAt(names[i]) = None THEN InvalidDate
                                    ELSE FirstPiece(AfterAt(names[i])[1])
            /\ \A i, j \in 1..Len(pages) :
                i < j =>
                    \/ StrLess(pages[j].datetime, pages[i].datetime)
                    \/ /\ pages[j].datetime = pages[i].datetime
                       /\ PositionIn(docs_dir, names[i]) < PositionIn(docs_dir, names[j])
            /\ DirIs({FileA, FileB, FileC}) => names = <<FileB, FileC, FileA>>

(***************************************************************************)
(* The process after startup: run_build step by step (a step ends at a     *)
(* write or at the next entry of read_dir), or the three request handlers. *)
(* Writes to out_dir are taken to succeed.                                 *)
(***************************************************************************)
SiteNames == {FileA, FileB, IndexMd, DoubleMd, HtmlMd, NotesTxt}

\* the parsed text of a document of the model
ContentOf(name) == IF name = FileA THEN CodeDoc ELSE PlainDoc

\* tokio::fs::write(out_dir.join(name), data)
Write(files, name, data) ==
    [n \in DOMAIN files \cup {name} |-> IF n = name THEN data ELSE files[n]]

\* p.filename = p.filename.replace(".md", ".html") for the home page
StaticPages(pages) ==
    [i \in 1..Len(pages) |->
        [pages[i] EXCEPT !.filename = Replace(pages[i].filename, DotMd, DotHtml)]]

InitSite ==
    /\ \E loaded \in BOOLEAN : themes = THEME_SET(loaded)
    /\ docs_dir \in Enumerations(SiteNames, MaxDir)
    /\ dirOk \in BOOLEAN
    /\ \E S \in SUBSET Range(docs_dir) : Cardinality(S) <= 1 /\ unreadable = S
    /\ filename = <<>>
    /\ last = Idle
    /\ CodeIdle
    /\ command \in {"serve", "build"}
    /\ no_nav \in BOOLEAN
    /\ pc = IF command = "build" THEN "summary" ELSE "serving"
    /\ pending = <<>>
    /\ out_dir = NoFiles
    /\ writes = <<>>
    /\ result = IF command = "build" THEN "running" ELSE "none"
    /\ response = Idle

Building(at) == command = "build" /\ result = "running" /\ pc = at

\* // Build summary
BuildSummary ==
    /\ Building("summary")
    /\ IF no_nav
       THEN pc' = "css" /\ UNCHANGED <<out_dir, writes, result>>
       ELSE \E tplErr \in BOOLEAN :
            IF tplErr
            THEN result' = "err: home.html" /\ UNCHANGED <<pc, out_dir, writes>>
            ELSE LET rendered == [kind |-> "listing",
                                  files |-> StaticPages(get_summary_data(docs_dir, dirOk, unreadable))]
                 IN  /\ out_dir' = Write(out_dir, IndexHtml, rendered)
                     /\ writes' = Append(writes, [file |-> IndexHtml, kind |-> "listing", of |-> <<>>])
                     /\ pc' = "css"
                     /\ UNCHANGED result
    /\ UNCHANGED <<themes, codeVars, dirVars, last, command, no_nav, pending, response>>

\* // Build css
BuildCss ==
    /\ Building("css")
    /\ \E tplErr \in BOOLEAN :
        IF tplErr
        THEN result' = "err: style.css" /\ UNCHANGED <<pc, out_dir, writes>>
        ELSE /\ out_dir' = Write(out_dir, StyleCss, [kind |-> "css"])
             /\ writes' = Append(writes, [file |-> StyleCss, kind |-> "css", of |-> <<>>])
             /\ pc' = "read_dir"
             /\ UNCHANGED result
    /\ UNCHANGED <<themes, codeVars, dirVars, last, command, no_nav, pending, response>>

\* let mut entries = tokio::fs::read_dir(&docs_dir).await?;
BuildReadDir ==
    /\ Building("read_dir")
    /\ IF dirOk
       THEN pending' = docs_dir /\ pc' = "pages" /\ UNCHANGED result
       ELSE result' = "err: read_dir" /\ UNCHANGED <<pc, pending>>
    /\ UNCHANGED <<themes, codeVars, dirVars, last, command, no_nav, out_dir, writes, response>>

\* one turn of the while-let loop over the entries
BuildPage ==
    /\ Building("pages")
    /\ pending # <<>>
    /\ LET name == Head(pending)
       IN  IF ~IsMarkdown(name)
           THEN pending' = Tail(pending) /\ UNCHANGED <<out_dir, writes, result>>
           ELSE IF name \in unreadable
           THEN result' = "err: read_to_string" /\ UNCHANGED <<pending, out_dir, writes>>
           ELSE \E hlErr, tplErr \in BOOLEAN :
                /\ hlErr => HasCodeBlock(ContentOf(name))
                /\ LET rendered == render_markdown_to_html(ContentOf(name), name, docs_dir,
                                       dirOk, no_nav, TRUE, themes, hlErr, tplErr)
                   IN  IF rendered.outcome = "panic"
                       THEN result' = "panic" /\ UNCHANGED <<pending, out_dir, writes>>
                       ELSE /\ out_dir' = Write(out_dir, OutFileName(name),
                                                [kind |-> "page", of |-> name, page |-> rendered])
                            /\ writes' = Append(writes, [file |-> OutFileName(name), kind |-> "page", of |-> name])
                            /\ pending' = Tail(pending)
                            /\ UNCHANGED result
    /\ UNCHANGED <<themes, codeVars, dirVars, last, command, no_nav, pc, response>>

\* tracing::info!("Build complete!"); Ok(())
BuildComplete ==
    /\ Building("pages")
    /\ pending = <<>>
    /\ result' = "ok"
    /\ UNCHANGED <<themes, codeVars, dirVars, last, command, no_nav, pc, pending,
                   out_dir, writes, response>>

EndsWith(s, suffix) ==
    Len(s) >= Len(suffix) /\ SubSeq(s, Len(s) - Len(suffix) + 1, Len(s)) = suffix

StripMd(name) == SubSeq(name, 1, Len(name) - Len(DotMd))

\* the pages asked for: the entries, with and without ".md", and a missing one
Requests ==
    Range(docs_dir) \cup {StripMd(n) : n \in {m \in Range(docs_dir) : EndsWith(m, DotMd)}}
    \cup {<<"n", "o", "p", "e">>}

\* page if it ends with ".md", else format!("{}.md", page)
PageFile(page) == IF EndsWith(page, DotMd) THEN page ELSE page \o DotMd

render_page_handler(page, hlErr, tplErr) ==
    LET name == PageFile(page)
    IN  IF name \in Range(docs_dir) /\ name \notin unreadable
        THEN LET rendered == render_markdown_to_html(ContentOf(name), name, docs_dir,
                                 dirOk, no_nav, FALSE, themes, hlErr, tplErr)
             IN  IF rendered.outcome = "panic" THEN [handler |-> "page", body |-> None]
                 ELSE [handler |-> "page", body |-> Some(rendered)]
        ELSE [handler |-> "page", body |-> Some([outcome |-> "not found page"])]

PageRequest ==
    /\ command = "serve"
    /\ \E page \in Requests, hlErr, tplErr \in BOOLEAN :
        /\ hlErr => HasCodeBlock(ContentOf(PageFile(page)))
        /\ response' = render_page_handler(page, hlErr, tplErr)
    /\ UNCHANGED <<themes, codeVars, dirVars, last, command, no_nav, pc, pending,
                   out_dir, writes, result>>

render_summary_handler(tplErr) ==
    IF no_nav THEN [handler |-> "summary", body |-> Some([outcome |-> "Disabled"])]
    ELSE IF tplErr THEN [handler |-> "summary", body |-> Some([outcome |-> "error text"])]
    ELSE [handler |-> "summary",
          body |-> Some([outcome |-> "listing",
                         files |-> get_summary_data(docs_dir, dirOk, unreadable)])]

SummaryRequest ==
    /\ command = "serve"
    /\ \E tplErr \in BOOLEAN : response' = render_summary_handler(tplErr)
    /\ UNCHANGED <<themes, codeVars, dirVars, last, command, no_nav, pc, pending,
                   out_dir, writes, result>>

serve_css(tplErr) ==
    IF tplErr THEN [handler |-> "css", body |-> Some([outcome |-> "CSS not found"])]
    ELSE [handler |-> "css", body |-> Some([outcome |-> "css"])]

CssRequest ==
    /\ command = "serve"
    /\ \E tplErr \in BOOLEAN : response' = serve_css(tplErr)
    /\ UNCHANGED <<themes, codeVars, dirVars, last, command, no_nav, pc, pending,
                   out_dir, writes, result>>

NextSite ==
    \/ BuildSummary
    \/ BuildCss
    \/ BuildReadDir
    \/ BuildPage
    \/ BuildComplete
    \/ PageRequest
    \/ SummaryRequest
    \/ CssRequest

SpecSite == InitSite /\ [][NextSite]_vars

(***************************************************************************)
(* Properties of the static export and of the handlers.                    *)
(***************************************************************************)
Documents_md == {n \in Range(docs_dir) : IsMarkdown(n)}

\* an output file holds the rendering of document d
HasOutput(d) ==
    \E f \in DOMAIN out_dir : out_dir[f].kind = "page" /\ out_dir[f].of = d

\* C8: after a successful export every document has an output file of its
\* own holding its rendering: no two documents are written to the same file
\* and no document's output is overwritten by a later write.
C8_OwnOutputFile ==
    result = "ok" =>
        /\ \A d \in Documents_md : HasOutput(d)
        /\ \A i, j \in 1..Len(writes) :
            (i # j /\ writes[i].kind = "page" /\ writes[j].kind = "page")
                => writes[i].file # writes[j].file

\* C9, for an export with navigation enabled: a successful export leaves
\* index.html holding the page listing, and style.css; no document's output
\* has replaced either.
C9_IndexAndStylesheet ==
    (result = "ok" /\ ~no_nav) =>
        /\ IndexHtml \in DOMAIN out_dir /\ out_dir[IndexHtml].kind = "listing"
        /\ StyleCss \in DOMAIN out_dir /\ out_dir[StyleCss].kind = "css"

\* C10, for a static export with an unreadable document: the export is not
\* aborted, and ends with the output file of every other document written.
C10_UnreadableDocumentAbsorbed ==
    (command = "build" /\ result \in {"ok", "err: read_to_string"}) =>
        /\ result = "ok"
        /\ \A d \in Documents_md \ unreadable : HasOutput(d)

====
